---- MODULE Spec2Model ----
(***************************************************************************)
(* Credit ledger and GrooveSell webhook reconciliation of the coloring     *)
(* page generator: the user_profiles and transactions tables, the credit   *)
(* RPCs (handle_new_user, use_credits, add_credits) and the webhook route  *)
(* (POST, verifyWebhookSignature and the four event handlers).             *)
(*                                                                         *)
(* Every database round trip of a handler is one step, so that requests    *)
(* interleave exactly where the code awaits the store.  Every store call   *)
(* may fail; the handlers see the failure as the `error` of the result.    *)
(***************************************************************************)
EXTENDS Integers, FiniteSets, Sequences, TLC

VARIABLES
    profiles,       \* public.user_profiles: one row per user id
    transactions,   \* public.transactions: set of rows, groovesell_order_id unique
    req,            \* the request each server slot is handling, with its locals
    resp,           \* the last response each slot sent
    webhookSecret,  \* process.env.GROOVESELL_WEBHOOK_SECRET
    concurrent,     \* whether requests may overlap (TRUE) or arrive one at a time
    faulty,         \* whether calls to the store may fail
    log,            \* the last console line of the request each slot handles
    client,         \* the state of the page (HomePage) in each browser tab
    generations,    \* public.generations: the number of rows
    external,       \* the generation calls the image API has answered with success
    env             \* process.env of the deployment: storage mode and platform

\* the variables of the page and of the /api/images route
clientVars == <<client, generations, external, env>>

vars == <<profiles, transactions, req, resp, webhookSecret, concurrent, faulty, log,
          clientVars>>

----------------------------------------------------------------------------
(* Bounds and domains *)

\* no credit grant is requested once total_credits would pass this cap
MaxTotal == 13

\* use_credits is not called once used_credits would pass this cap
MaxUsed == 4

\* the page starts no request once this many generation calls could have succeeded
MaxCalls == 3

Users == {"u1", "u2"}
Procs == {1, 2}
Orders == {"O1", "O2"}
Amounts == {1, 2}

\* credits_to_use INTEGER: the amounts use_credits accepts, negative and zero too
RpcAmounts == {-1, 0, 1, 2}

EmailOf(u) == u \o "@mail"
UnknownEmail == "nobody@mail"
\* the customer emails of the events: the first user's and one of no account
Emails == {EmailOf("u1"), UnknownEmail}

NULL == "NULL"

----------------------------------------------------------------------------
(* Program constants *)

\* getCreditsForPurchase(): parseInt(NEXT_PUBLIC_CREDITS_PER_MONTH || '5')
getCreditsForPurchase == 5

\* handle_new_user: VALUES (NEW.id, NEW.email, 3)
FreeCredits == 3

\* length of the hex digest of a SHA-256 HMAC
HexDigestLen == 64

----------------------------------------------------------------------------
(* Webhook payloads and signatures *)

EventTypes == {"purchase.completed", "subscription.created", "subscription.renewed",
               "subscription.cancelled", "refund.processed", "invoice.created"}

\* interface GrooveSellWebhook, the fields the handlers read
GrooveSellWebhook == [event_type : EventTypes,
                      order_id : Orders,
                      customer_email : Emails,
                      subscription_type : {NULL, "yearly"}]

\* a request body that is not JSON
Malformed == [event_type |-> "not-json", order_id |-> "none",
              customer_email |-> "none", subscription_type |-> NULL]

\* subscription_type is optional: sent, or not, with the events that start a
\* subscription, and not sent with the others
Payloads ==
    {b \in GrooveSellWebhook :
        b.subscription_type # NULL
            => b.event_type \in {"purchase.completed", "subscription.created"}}

Bodies == Payloads \cup {Malformed}

NoSecret == "unset"
ProcessorSecret == "k-processor"
OtherSecret == "k-other"
Keys == {ProcessorSecret, OtherSecret}

\* crypto.createHmac('sha256', secret).update(payload).digest('hex'):
\* a digest determined by the key and the payload, collision free
Hmac(secret, payload) ==
    secret \o "/" \o payload.event_type \o "/" \o payload.order_id
           \o "/" \o payload.customer_email \o "/" \o payload.subscription_type

\* `sha256=${expectedSignature}`
ExpectedSignature(payload, secret) ==
    [len |-> Len("sha256=") + HexDigestLen, mac |-> Hmac(secret, payload)]

\* the x-groovesell-signature header: absent, well formed, or some other string
NoSignature == [len |-> 0, mac |-> ""]
JunkSignature == [len |-> 3, mac |-> "abc"]

\* crypto.timingSafeEqual: throws a RangeError when the byte lengths differ
timingSafeEqual(a, b) ==
    IF a.len # b.len THEN "throw" ELSE IF a = b THEN "true" ELSE "false"

\* a verification that accepts every header
verifyAnySignature(payload, signature, secret) == "true"

verifyWebhookSignature(payload, signature, secret) ==
    timingSafeEqual(ExpectedSignature(payload, secret), signature)

\* the headers a sender can produce for a body: none, a string of another
\* length, the body signed with either key, another body signed by the processor
Signatures(body) ==
    {NoSignature, JunkSignature, ExpectedSignature(Malformed, ProcessorSecret)}
        \cup {ExpectedSignature(body, k) : k \in Keys}

\* the checks with verification skipped when no secret is configured
AuthenticateFailOpen(secret, body, signature) ==
    IF secret = NoSecret THEN (IF body = Malformed THEN "500" ELSE "pass")
    ELSE IF signature = NoSignature THEN "400"
    ELSE LET v == verifyWebhookSignature(body, signature, secret)
         IN  IF v = "throw" THEN "500"
             ELSE IF v = "false" THEN "401"
             ELSE IF body = Malformed THEN "500"
             ELSE "pass"

\* POST lines 43-60: the checks before the dispatch; "pass" or the status sent
Authenticate(secret, body, signature) ==
    IF secret = NoSecret THEN "500"
    ELSE IF signature = NoSignature THEN "400"
    ELSE LET v == verifyWebhookSignature(body, signature, secret)
         IN  IF v = "throw" THEN "500"
             ELSE IF v = "false" THEN "401"
             ELSE IF body = Malformed THEN "500"      \* JSON.parse throws
             ELSE "pass"

\* a dispatch that treats every other event type as a refund
DispatchAsRefund(event_type) ==
    CASE event_type \in {"purchase.completed", "subscription.created"} -> "pc_find"
      [] event_type = "subscription.renewed" -> "rn_find"
      [] event_type = "subscription.cancelled" -> "cn_update"
      [] OTHER -> "rf_find"

\* POST lines 66-86: the first step of the handler of an event type
Dispatch(event_type) ==
    CASE event_type \in {"purchase.completed", "subscription.created"} -> "pc_find"
      [] event_type = "subscription.renewed" -> "rn_find"
      [] event_type = "subscription.cancelled" -> "cn_update"
      [] event_type = "refund.processed" -> "rf_find"
      [] OTHER -> "idle"

----------------------------------------------------------------------------
(* The store *)

NoProfile == [present |-> FALSE, total_credits |-> 0, used_credits |-> 0,
              subscription_status |-> "inactive", subscription_type |-> NULL]

\* the row handle_new_user inserts: the column defaults and 3 free credits
NewProfile == [present |-> TRUE, total_credits |-> FreeCredits, used_credits |-> 0,
               subscription_status |-> "inactive", subscription_type |-> NULL]

\* a lookup that ignores the email
AnyProfile(P, e) == {u \in Users : P[u].present}

\* SELECT ... FROM user_profiles WHERE email = e   (.single())
ProfileByEmail(P, e) == {u \in Users : P[u].present /\ EmailOf(u) = e}

\* a lookup that ignores the order id
AnyTransaction(T, o) == T

\* SELECT ... FROM transactions WHERE groovesell_order_id = o   (.single())
TransactionByOrder(T, o) == {t \in T : t.groovesell_order_id = o}

\* use_credits: SELECT (total_credits - used_credits) INTO available_credits;
\* without a row the variable stays NULL
SelectAvailable(P, u) ==
    IF P[u].present
    THEN [null |-> FALSE, value |-> P[u].total_credits - P[u].used_credits]
    ELSE [null |-> TRUE, value |-> 0]

\* the balance check with > for >=
HasMoreThan(available, credits_to_use) ==
    ~available.null /\ available.value > credits_to_use

\* use_credits: IF available_credits >= credits_to_use (NULL is not true)
HasEnough(available, credits_to_use) ==
    ~available.null /\ available.value >= credits_to_use

\* a debit that is taken from total_credits as well
DebitFromTotal(P, u, n) ==
    IF P[u].present
    THEN [P EXCEPT ![u].used_credits = @ + n, ![u].total_credits = @ - n]
    ELSE P

\* use_credits, UPDATE SET used_credits = used_credits + credits_to_use
UseCreditsUpdate(P, u, n) ==
    IF P[u].present THEN [P EXCEPT ![u].used_credits = @ + n] ELSE P

\* a grant that also activates the subscription
AddCreditsAndActivate(P, u, n) ==
    IF P[u].present
    THEN [P EXCEPT ![u].total_credits = @ + n, ![u].subscription_status = "active"]
    ELSE P

\* add_credits: UPDATE SET total_credits = total_credits + credits_to_add
add_credits(P, u, n) ==
    IF P[u].present THEN [P EXCEPT ![u].total_credits = @ + n] ELSE P

\* an insert that replaces the log
OverwriteTransactions(T, row) == {row}

\* INSERT INTO transactions under the UNIQUE constraint on groovesell_order_id
InsertTransaction(T, row) ==
    IF TransactionByOrder(T, row.groovesell_order_id) # {} THEN T ELSE T \cup {row}

Max(a, b) == IF a >= b THEN a ELSE b
Min(a, b) == IF a <= b THEN a ELSE b

\* handleRefund: Math.min(transaction.credits_added, userProfile.total_credits)
CreditsToRemove(credits_added, total_credits) == Min(credits_added, total_credits)

\* the refund without the two clamps
RefundedTotalUnclamped(credits_added, total_credits) == total_credits - credits_added

\* handleRefund: Math.max(0, userProfile.total_credits - creditsToRemove)
RefundedTotal(credits_added, total_credits) ==
    Max(0, total_credits - CreditsToRemove(credits_added, total_credits))

\* a cancellation that reaches every account
CancelAll(P, e) ==
    [u \in Users |-> [P[u] EXCEPT !.subscription_status = "cancelled"]]

\* handleSubscriptionCancelled: UPDATE user_profiles SET subscription_status =
\* 'cancelled' WHERE email = e
CancelByEmail(P, e) ==
    [u \in Users |-> IF u \in ProfileByEmail(P, e)
                     THEN [P[u] EXCEPT !.subscription_status = "cancelled"]
                     ELSE P[u]]

\* a refund recorded under the key of the purchase
OrderKey(order_id) == order_id

\* handleRefund: `${data.order_id}-refund`
RefundKey(order_id) == order_id \o "-refund"

PurchaseRow(u, data) ==
    [user_id |-> u, groovesell_order_id |-> data.order_id,
     transaction_type |-> "purchase", credits_added |-> getCreditsForPurchase]

RefundRow(u, data, credits_added) ==
    [user_id |-> u, groovesell_order_id |-> RefundKey(data.order_id),
     transaction_type |-> "refund", credits_added |-> -credits_added]

----------------------------------------------------------------------------
(* Requests *)

NoEvent == [event_type |-> "none", order_id |-> "none",
            customer_email |-> "none", subscription_type |-> NULL]

\* a free slot; the locals of the handlers are cleared
Idle == [pc |-> "idle", data |-> NoEvent, signature |-> NoSignature, userId |-> "none",
         credits_added |-> 0, hasProfile |-> FALSE, total_credits |-> 0,
         credits_to_use |-> 0, userToken |-> "none", passwordHash |-> "none"]

Busy(p) == req[p].pc # "idle"

\* a request takes the lowest free slot; without overlap, only when all are free
CanAccept(p) ==
    /\ ~Busy(p)
    /\ \A q \in Procs : q < p => Busy(q)
    /\ concurrent \/ \A q \in Procs : ~Busy(q)

\* requests in flight that will still add credits to the account of email e
PendingGrants(e) ==
    Cardinality({q \in Procs : /\ req[q].pc \in {"pc_find", "pc_add", "rn_find", "rn_add"}
                               /\ req[q].data.customer_email = e})

\* whether a call to the store fails
Failures == IF faulty THEN BOOLEAN ELSE {FALSE}

Respond(p, status) ==
    /\ req' = [req EXCEPT ![p] = Idle]
    /\ resp' = [resp EXCEPT ![p] = status]

Goto(p, pc) ==
    /\ req' = [req EXCEPT ![p].pc = pc]
    /\ UNCHANGED resp

\* the request of a slot that has written nothing to the console
NoLine == "none"

\* console.log / console.error of the request in slot p
Log(p, line) == log' = [log EXCEPT ![p] = line]

\* POST lines 46, 51, 56, 90: the line written with the status of a refusal
AuthLine(secret, status) ==
    IF secret = NoSecret THEN "GROOVESELL_WEBHOOK_SECRET not configured"
    ELSE IF status = "400" THEN "Missing webhook signature"
    ELSE IF status = "401" THEN "Invalid webhook signature"
    ELSE "Webhook processing error:"

----------------------------------------------------------------------------
(* The page (HomePage) and the /api/images route: data *)

Unset == "unset"

AppPassword == "app-password"

\* the environment variables the storage mode is computed from, and the
\* password of the /api/images route
Envs == [NEXT_PUBLIC_IMAGE_STORAGE_MODE : {Unset, "fs", "indexeddb"},
         VERCEL : {Unset, "1"},
         NEXT_PUBLIC_VERCEL_ENV : {Unset, "production", "development"},
         APP_PASSWORD : {Unset, AppPassword}]

\* a deployment with none of them set
LocalEnv == [NEXT_PUBLIC_IMAGE_STORAGE_MODE |-> Unset, VERCEL |-> Unset,
             NEXT_PUBLIC_VERCEL_ENV |-> Unset, APP_PASSWORD |-> Unset]

\* /api/images lines 48-50: the hex digest, determined by the data
sha256(data) == "sha256:" \o data

\* the userToken field of a request: none, a user's access token, a forged one
NoToken == "none"
TokenOf(u) == "token-" \o u
Tokens == {NoToken, "forged"} \cup {TokenOf(u) : u \in Users}

\* the passwordHash field: none, the hash of the password, the hash of a guess
NoHash == "none"
Hashes == {NoHash, sha256(AppPassword), sha256("guess")}

\* supabase.auth.getUser(userToken): the user the token was issued to
getUser(userToken, P) == {u \in Users : P[u].present /\ userToken = TokenOf(u)}

\* /api/images POST lines 124-138: the fallback without a user token
PasswordGate(appPassword, passwordHash) ==
    IF appPassword = Unset THEN "401"
    ELSE IF passwordHash = NoHash THEN "401"
    ELSE IF passwordHash # sha256(appPassword) THEN "401"
    ELSE "pass"

\* /api/images POST lines 65-77
effectiveStorageMode(e) ==
    IF e.NEXT_PUBLIC_IMAGE_STORAGE_MODE = "fs" THEN "fs"
    ELSE IF e.NEXT_PUBLIC_IMAGE_STORAGE_MODE = "indexeddb" THEN "indexeddb"
    ELSE IF e.VERCEL = "1" THEN "indexeddb"
    ELSE "fs"

\* page lines 20-34
effectiveStorageModeClient(e) ==
    IF e.NEXT_PUBLIC_IMAGE_STORAGE_MODE = "fs" THEN "fs"
    ELSE IF e.NEXT_PUBLIC_IMAGE_STORAGE_MODE = "indexeddb" THEN "indexeddb"
    ELSE IF e.NEXT_PUBLIC_VERCEL_ENV \in {"production", "preview"} THEN "indexeddb"
    ELSE "fs"

\* userProfile of the page: null, or the credit columns of the row it loaded
NoProfileState == [loaded |-> FALSE, total_credits |-> 0, used_credits |-> 0]

ProfileState(row) == [loaded |-> TRUE, total_credits |-> row.total_credits,
                      used_credits |-> row.used_credits]

\* latestImageBatch === null
NoBatch == [null |-> TRUE, images |-> {}]

\* the image /api/images returns: b64_json always, path only in fs mode
ApiImageResponseItem(mode) == [b64_json |-> TRUE, path |-> (mode = "fs")]

\* the page before the session is checked; the last fields are the locals of
\* handleApiCall and what the running invocation has done so far
NoPage == [pc |-> "idle", user |-> "none", userProfile |-> NoProfileState,
           isLoading |-> FALSE, error |-> "null", latestImageBatch |-> NoBatch,
           photoPreview |-> FALSE, userToken |-> FALSE, status |-> "none",
           images |-> {}, credit_calls |-> 0, generated |-> FALSE,
           creditUsed |-> FALSE]

\* handleApiCall, catch and finally: the error is shown and the loading state ends
Caught(page, message) ==
    [page EXCEPT !.pc = "idle", !.error = message, !.latestImageBatch = NoBatch,
                 !.isLoading = FALSE, !.photoPreview = FALSE]

\* invocations of handleApiCall that may still reach the generation call
Generating ==
    Cardinality({c \in Procs : client[c].pc \in {"session", "fetch", "generate"}})

----------------------------------------------------------------------------
\* the state after deployment: empty tables, no request, the secret set or not
Start(overlap, failures) ==
    /\ profiles = [u \in Users |-> NoProfile]
    /\ transactions = {}
    /\ req = [p \in Procs |-> Idle]
    /\ resp = [p \in Procs |-> "none"]
    /\ webhookSecret \in {NoSecret, ProcessorSecret}
    /\ concurrent = overlap
    /\ faulty = failures
    /\ log = [p \in Procs |-> NoLine]
    /\ client = [c \in Procs |-> NoPage]
    /\ generations = 0
    /\ external = 0
    /\ env = LocalEnv

Init == Start(FALSE, FALSE)

\* trigger on_auth_user_created: a new identity gets its profile row
handle_new_user(u) ==
    /\ ~profiles[u].present
    /\ profiles' = [profiles EXCEPT ![u] = NewProfile]
    /\ UNCHANGED <<transactions, req, resp, webhookSecret, concurrent, faulty, log, clientVars>>


(* The credit RPC, called by a signed-in client *)

\* supabase.rpc('use_credits', {user_uuid, credits_to_use})
use_credits_Call(p, u, n) ==
    /\ CanAccept(p)
    /\ profiles[u].used_credits + n <= MaxUsed
    /\ profiles[u].used_credits + n >= 0 - MaxUsed
    /\ req' = [req EXCEPT ![p] = [Idle EXCEPT !.pc = "uc_select", !.userId = u,
                                              !.credits_to_use = n]]
    /\ resp' = [resp EXCEPT ![p] = "none"]
    /\ Log(p, NoLine)
    /\ UNCHANGED <<profiles, transactions, webhookSecret, concurrent, faulty, clientVars>>

\* the SELECT and the IF of use_credits; the call can also fail as a whole
use_credits_Select(p) ==
    /\ req[p].pc = "uc_select"
    /\ \E failed \in Failures :
         IF failed THEN Respond(p, "error")
         ELSE IF HasEnough(SelectAvailable(profiles, req[p].userId), req[p].credits_to_use)
              THEN Goto(p, "uc_update")
              ELSE Respond(p, "FALSE")
    /\ UNCHANGED <<profiles, transactions, webhookSecret, concurrent, faulty, log, clientVars>>

\* the UPDATE of use_credits, on the row as it is now, and RETURN TRUE
use_credits_Update(p) ==
    /\ req[p].pc = "uc_update"
    /\ profiles' = UseCreditsUpdate(profiles, req[p].userId, req[p].credits_to_use)
    /\ Respond(p, "TRUE")
    /\ UNCHANGED <<transactions, webhookSecret, concurrent, faulty, log, clientVars>>

----------------------------------------------------------------------------
(* The webhook route *)

\* POST lines 38-88 up to the first await of a handler
POST(p, body, signature) ==
    /\ CanAccept(p)
    /\ LET a == Authenticate(webhookSecret, body, signature)
           pc == Dispatch(body.event_type)
       IN  IF a # "pass" THEN Respond(p, a) /\ Log(p, AuthLine(webhookSecret, a))
           ELSE IF pc = "idle" THEN Respond(p, "200") /\ Log(p, "Unhandled event type:")
           ELSE /\ pc \in {"pc_find", "rn_find"} =>
                     \A u \in ProfileByEmail(profiles, body.customer_email) :
                         profiles[u].total_credits
                           + getCreditsForPurchase * (PendingGrants(body.customer_email) + 1)
                             <= MaxTotal
                /\ req' = [req EXCEPT ![p] = [Idle EXCEPT !.pc = pc, !.data = body,
                                                          !.signature = signature]]
                /\ resp' = [resp EXCEPT ![p] = "none"]
                /\ Log(p, "GrooveSell webhook received:")
    /\ UNCHANGED <<profiles, transactions, webhookSecret, concurrent, faulty, clientVars>>

\* anyone sends a request to the route, with any body and any header
Request(p) ==
    /\ CanAccept(p)
    /\ \E body \in Bodies : \E signature \in Signatures(body) : POST(p, body, signature)

\* the payment processor delivers one of the events, signed with its secret
Deliver(p, events) ==
    /\ CanAccept(p)
    /\ \E body \in events : POST(p, body, ExpectedSignature(body, ProcessorSecret))

\* handlePurchaseCompleted lines 97-110: find the user by email
handlePurchaseCompleted_FindUser(p) ==
    /\ req[p].pc = "pc_find"
    /\ \E failed \in Failures :
         LET users == ProfileByEmail(profiles, req[p].data.customer_email)
         IN  IF failed \/ users = {}
             THEN Respond(p, "200") /\ Log(p, "User not found for email:")
             ELSE \E u \in users :
                    /\ req' = [req EXCEPT ![p].pc = "pc_add", ![p].userId = u]
                    /\ UNCHANGED <<resp, log>>
    /\ UNCHANGED <<profiles, transactions, webhookSecret, concurrent, faulty, clientVars>>

\* handlePurchaseCompleted lines 112-122: rpc add_credits
handlePurchaseCompleted_AddCredits(p) ==
    /\ req[p].pc = "pc_add"
    /\ \E failed \in Failures :
         IF failed
         THEN Respond(p, "200") /\ Log(p, "Error adding credits:") /\ UNCHANGED profiles
         ELSE /\ profiles' = add_credits(profiles, req[p].userId, getCreditsForPurchase)
              /\ Goto(p, "pc_update")
              /\ UNCHANGED log
    /\ UNCHANGED <<transactions, webhookSecret, concurrent, faulty, clientVars>>

\* the subscription type as the payload carries it, absent when it carries none
SubscriptionTypeSent(data) == data.subscription_type

\* subscription_type: data.subscription_type || 'monthly'
SubscriptionTypeOf(data) ==
    IF data.subscription_type = NULL THEN "monthly" ELSE data.subscription_type

\* handlePurchaseCompleted lines 124-137: update the subscription status
handlePurchaseCompleted_UpdateStatus(p) ==
    /\ req[p].pc = "pc_update"
    /\ \E failed \in Failures :
         IF failed
         THEN /\ Respond(p, "200")
              /\ Log(p, "Error updating subscription status:")
              /\ UNCHANGED profiles
         ELSE /\ profiles' = [profiles EXCEPT
                    ![req[p].userId].subscription_status = "active",
                    ![req[p].userId].subscription_type = SubscriptionTypeOf(req[p].data)]
              /\ Goto(p, "pc_insert")
              /\ UNCHANGED log
    /\ UNCHANGED <<transactions, webhookSecret, concurrent, faulty, clientVars>>

\* handlePurchaseCompleted lines 139-157: record the transaction; an error is logged
handlePurchaseCompleted_Insert(p) ==
    /\ req[p].pc = "pc_insert"
    /\ \E failed \in Failures :
         transactions' = IF failed THEN transactions
                         ELSE InsertTransaction(transactions,
                                                PurchaseRow(req[p].userId, req[p].data))
    /\ Respond(p, "200")
    /\ Log(p, "Successfully processed purchase for")
    /\ UNCHANGED <<profiles, webhookSecret, concurrent, faulty, clientVars>>

\* handleSubscriptionRenewed lines 165-178: find the user by email
handleSubscriptionRenewed_FindUser(p) ==
    /\ req[p].pc = "rn_find"
    /\ \E failed \in Failures :
         LET users == ProfileByEmail(profiles, req[p].data.customer_email)
         IN  IF failed \/ users = {}
             THEN Respond(p, "200") /\ Log(p, "User not found for renewal:")
             ELSE \E u \in users :
                    /\ req' = [req EXCEPT ![p].pc = "rn_add", ![p].userId = u]
                    /\ UNCHANGED <<resp, log>>
    /\ UNCHANGED <<profiles, transactions, webhookSecret, concurrent, faulty, clientVars>>

\* handleSubscriptionRenewed lines 180-184: rpc add_credits, its result unread
handleSubscriptionRenewed_AddCredits(p) ==
    /\ req[p].pc = "rn_add"
    /\ \E failed \in Failures :
         profiles' = IF failed THEN profiles
                     ELSE add_credits(profiles, req[p].userId, getCreditsForPurchase)
    /\ Goto(p, "rn_insert")
    /\ UNCHANGED <<transactions, webhookSecret, concurrent, faulty, log, clientVars>>

\* handleSubscriptionRenewed lines 186-200: record the transaction, its result unread
handleSubscriptionRenewed_Insert(p) ==
    /\ req[p].pc = "rn_insert"
    /\ \E failed \in Failures :
         transactions' = IF failed THEN transactions
                         ELSE InsertTransaction(transactions,
                                                PurchaseRow(req[p].userId, req[p].data))
    /\ Respond(p, "200")
    /\ Log(p, "Subscription renewed for")
    /\ UNCHANGED <<profiles, webhookSecret, concurrent, faulty, clientVars>>

\* handleSubscriptionCancelled: UPDATE user_profiles ... WHERE email = customer_email
handleSubscriptionCancelled(p) ==
    /\ req[p].pc = "cn_update"
    /\ \E failed \in Failures :
         IF failed
         THEN UNCHANGED profiles /\ Log(p, "Error updating cancelled subscription:")
         ELSE /\ profiles' = CancelByEmail(profiles, req[p].data.customer_email)
              /\ Log(p, "Subscription cancelled for")
    /\ Respond(p, "200")
    /\ UNCHANGED <<transactions, webhookSecret, concurrent, faulty, clientVars>>

\* handleRefund lines 225-235: find the original transaction
handleRefund_FindTransaction(p) ==
    /\ req[p].pc = "rf_find"
    /\ \E failed \in Failures :
         LET found == TransactionByOrder(transactions, req[p].data.order_id)
         IN  IF failed \/ found = {}
             THEN Respond(p, "200") /\ Log(p, "Original transaction not found for refund:")
             ELSE \E t \in found :
                    /\ req' = [req EXCEPT ![p].pc = "rf_read", ![p].userId = t.user_id,
                                          ![p].credits_added = t.credits_added]
                    /\ UNCHANGED <<resp, log>>
    /\ UNCHANGED <<profiles, transactions, webhookSecret, concurrent, faulty, clientVars>>

\* handleRefund lines 237-242: read total_credits of the owner; no row on an error
handleRefund_ReadProfile(p) ==
    /\ req[p].pc = "rf_read"
    /\ \E failed \in Failures :
         IF failed \/ ~profiles[req[p].userId].present
         THEN Goto(p, "rf_insert")
         ELSE /\ req' = [req EXCEPT ![p].pc = "rf_update", ![p].hasProfile = TRUE,
                             ![p].total_credits = profiles[req[p].userId].total_credits]
              /\ UNCHANGED resp
    /\ UNCHANGED <<profiles, transactions, webhookSecret, concurrent, faulty, log, clientVars>>

\* handleRefund lines 244-254: write the total computed from the row read before
handleRefund_UpdateProfile(p) ==
    /\ req[p].pc = "rf_update"
    /\ \E failed \in Failures :
         profiles' = IF failed THEN profiles
                     ELSE [profiles EXCEPT
                            ![req[p].userId].total_credits =
                                RefundedTotal(req[p].credits_added, req[p].total_credits),
                            ![req[p].userId].subscription_status = "cancelled"]
    /\ Goto(p, "rf_insert")
    /\ UNCHANGED <<transactions, webhookSecret, concurrent, faulty, log, clientVars>>

\* handleRefund lines 256-269: record the refund transaction, its result unread
handleRefund_Insert(p) ==
    /\ req[p].pc = "rf_insert"
    /\ \E failed \in Failures :
         transactions' = IF failed THEN transactions
                         ELSE InsertTransaction(transactions,
                                  RefundRow(req[p].userId, req[p].data, req[p].credits_added))
    /\ Respond(p, "200")
    /\ Log(p, "Refund processed for order")
    /\ UNCHANGED <<profiles, webhookSecret, concurrent, faulty, clientVars>>

----------------------------------------------------------------------------
(* The page and the /api/images route: steps *)

\* page lines 52-80, checkAuth: the session's user and its profile row are loaded
checkAuth(c, u) ==
    /\ client[c].pc = "idle"
    /\ client[c].user = "none"
    /\ profiles[u].present
    /\ \E failed \in Failures :
         client' = [client EXCEPT
                      ![c].user = u,
                      ![c].userProfile = IF failed THEN NoProfileState
                                         ELSE ProfileState(profiles[u])]
    /\ UNCHANGED <<profiles, transactions, req, resp, webhookSecret, concurrent, faulty,
                   log, generations, external, env>>

\* handleApiCall lines 135-156: the form submits only while not loading
handleApiCall_Start(c) ==
    /\ client[c].pc = "idle"
    /\ ~client[c].isLoading
    /\ external + Generating < MaxCalls
    /\ LET page == client[c]
           availableCredits == page.userProfile.total_credits
                                 - page.userProfile.used_credits
       IN  client' = [client EXCEPT ![c] =
             IF page.user = "none" \/ ~page.userProfile.loaded
             THEN [page EXCEPT !.error = "Please log in to create coloring pages"]
             ELSE IF availableCredits <= 0
             THEN [page EXCEPT !.error = "No credits remaining."]
             ELSE [page EXCEPT !.pc = "session", !.isLoading = TRUE, !.error = "null",
                               !.latestImageBatch = NoBatch, !.photoPreview = TRUE,
                               !.userToken = FALSE, !.status = "none", !.images = {},
                               !.credit_calls = 0, !.generated = FALSE,
                               !.creditUsed = FALSE]]
    /\ UNCHANGED <<profiles, transactions, req, resp, webhookSecret, concurrent, faulty,
                   log, generations, external, env>>

\* handleApiCall lines 160-164: getSession, before the try block; it resolves
\* with a session or without one, or rejects and ends the invocation
handleApiCall_GetSession(c) ==
    /\ client[c].pc = "session"
    /\ \E failed \in Failures, session \in BOOLEAN :
         client' = [client EXCEPT ![c] =
                      IF failed THEN [@ EXCEPT !.pc = "idle"]
                      ELSE [@ EXCEPT !.pc = "fetch", !.userToken = session]]
    /\ UNCHANGED <<profiles, transactions, req, resp, webhookSecret, concurrent, faulty,
                   log, generations, external, env>>

\* /api/images POST lines 89-138 for the page's request, which carries no
\* passwordHash: "pass" or the status of the refusal
ImagesGate(userToken, authFailed, profileFailed, P, u) ==
    IF ~userToken THEN "401"
    ELSE IF authFailed THEN "401"
    ELSE IF profileFailed \/ ~P[u].present THEN "404"
    ELSE IF P[u].total_credits - P[u].used_credits <= 0 THEN "403"
    ELSE "pass"

\* fetch('/api/images') up to the generation call; a refusal is thrown by the
\* page (lines 184-194) and caught (lines 290-302)
images_POST(c) ==
    /\ client[c].pc = "fetch"
    /\ \E authFailed \in Failures, profileFailed \in Failures :
         LET g == ImagesGate(client[c].userToken, authFailed, profileFailed,
                             profiles, client[c].user)
         IN  client' = [client EXCEPT ![c] =
                          IF g = "pass" THEN [@ EXCEPT !.pc = "generate"]
                          ELSE [Caught(@, "API request failed") EXCEPT !.status = g]]
    /\ UNCHANGED <<profiles, transactions, req, resp, webhookSecret, concurrent, faulty,
                   log, generations, external, env>>

\* a request sent to /api/images by any client, lines 86-154: the gate, then
\* the check of mode, prompt and image_0
images_Request(p, userToken, passwordHash, complete) ==
    /\ CanAccept(p)
    /\ external < MaxCalls
    /\ \E authFailed \in Failures, profileFailed \in Failures :
         LET users == getUser(userToken, profiles)
             u == CHOOSE u \in Users : users # {} => u \in users
             g == IF userToken = NoToken
                  THEN PasswordGate(env.APP_PASSWORD, passwordHash)
                  ELSE ImagesGate(TRUE, authFailed \/ users = {}, profileFailed,
                                  profiles, u)
         IN  IF g # "pass" THEN Respond(p, g)
             ELSE IF ~complete THEN Respond(p, "400")
             ELSE /\ req' = [req EXCEPT ![p] =
                               [Idle EXCEPT !.pc = "im_generate",
                                            !.userId = IF userToken = NoToken
                                                       THEN "none" ELSE u,
                                            !.userToken = userToken,
                                            !.passwordHash = passwordHash]]
                  /\ resp' = [resp EXCEPT ![p] = "none"]
    /\ Log(p, NoLine)
    /\ UNCHANGED <<profiles, transactions, webhookSecret, concurrent, faulty, clientVars>>

\* what the generation call and the download of its output can come to
Outcomes == {"images", "replicate-error", "empty-output", "download-error"}

\* /api/images POST lines 156-244: the call to the image API, the download and,
\* in fs mode, the write of the image; then the page's check of the response
images_POST_Generate(c) ==
    /\ client[c].pc = "generate"
    /\ \E outcome \in Outcomes :
         /\ external' = IF outcome \in {"images", "download-error"}
                        THEN external + 1 ELSE external
         /\ client' = [client EXCEPT ![c] =
              IF outcome = "images"
              THEN [@ EXCEPT !.pc = "debit", !.status = "200", !.generated = TRUE,
                             !.images = {ApiImageResponseItem(effectiveStorageMode(env))}]
              ELSE [Caught(@, "API request failed") EXCEPT !.status = "500"]]
    /\ UNCHANGED <<profiles, transactions, req, resp, webhookSecret, concurrent, faulty,
                   log, generations, env>>

\* /api/images POST lines 156-266 for a request sent to the route directly
images_Generate(p) ==
    /\ req[p].pc = "im_generate"
    /\ \E outcome \in Outcomes :
         /\ external' = IF outcome \in {"images", "download-error"}
                        THEN external + 1 ELSE external
         /\ Respond(p, IF outcome = "images" THEN "200" ELSE "500")
    /\ UNCHANGED <<profiles, transactions, webhookSecret, concurrent, faulty, log,
                   client, generations, env>>

\* handleApiCall lines 202-204: supabase.rpc('use_credits', {user.id, 1})
handleApiCall_UseCredits(c) ==
    /\ client[c].pc = "debit"
    /\ ~Busy(c)
    /\ req' = [req EXCEPT ![c] = [Idle EXCEPT !.pc = "uc_select",
                                              !.userId = client[c].user,
                                              !.credits_to_use = 1]]
    /\ resp' = [resp EXCEPT ![c] = "none"]
    /\ Log(c, NoLine)
    /\ client' = [client EXCEPT ![c].pc = "credited",
                                ![c].credit_calls = @ + 1]
    /\ UNCHANGED <<profiles, transactions, webhookSecret, concurrent, faulty,
                   generations, external, env>>

\* a page that goes on whatever use_credits answered
handleApiCall_CreditIgnored(c) ==
    /\ client[c].pc = "credited"
    /\ ~Busy(c)
    /\ client' = [client EXCEPT ![c].pc = "refresh",
                                ![c].creditUsed = (resp[c] = "TRUE")]
    /\ UNCHANGED <<profiles, transactions, req, resp, webhookSecret, concurrent, faulty,
                   log, generations, external, env>>

\* handleApiCall lines 206-210: creditError || !creditUsed returns, through finally
handleApiCall_CreditResult(c) ==
    /\ client[c].pc = "credited"
    /\ ~Busy(c)
    /\ client' = [client EXCEPT ![c] =
                    IF resp[c] = "TRUE"
                    THEN [@ EXCEPT !.pc = "refresh", !.creditUsed = TRUE]
                    ELSE [@ EXCEPT !.pc = "idle", !.isLoading = FALSE,
                                   !.photoPreview = FALSE,
                                   !.error = "Error updating credits. Please try again."]]
    /\ UNCHANGED <<profiles, transactions, req, resp, webhookSecret, concurrent, faulty,
                   log, generations, external, env>>

\* handleApiCall lines 212-221: the profile row is read again
handleApiCall_RefreshProfile(c) ==
    /\ client[c].pc = "refresh"
    /\ \E failed \in Failures :
         client' = [client EXCEPT
                      ![c].pc = "record",
                      ![c].userProfile = IF failed THEN @
                                         ELSE ProfileState(profiles[client[c].user])]
    /\ UNCHANGED <<profiles, transactions, req, resp, webhookSecret, concurrent, faulty,
                   log, generations, external, env>>

\* handleApiCall lines 223-234: insert into generations, its result unread
handleApiCall_RecordGeneration(c) ==
    /\ client[c].pc = "record"
    /\ \E failed \in Failures :
         generations' = IF failed THEN generations ELSE generations + 1
    /\ client' = [client EXCEPT ![c].pc = "display"]
    /\ UNCHANGED <<profiles, transactions, req, resp, webhookSecret, concurrent, faulty,
                   log, external, env>>

\* handleApiCall lines 236-283: the images the page keeps; db.images.put can fail
ProcessedImages(images, mode, dbError) ==
    IF mode = "indexeddb"
    THEN {img \in images : img.b64_json /\ ~dbError}
    ELSE {img \in images : img.path}

\* handleApiCall lines 280-302: the batch is displayed and the loading state ends
handleApiCall_Display(c) ==
    /\ client[c].pc = "display"
    /\ \E dbError \in BOOLEAN :
         LET page == client[c]
             mode == effectiveStorageModeClient(env)
         IN  client' = [client EXCEPT ![c] =
                [page EXCEPT
                   !.pc = "idle", !.isLoading = FALSE, !.photoPreview = FALSE,
                   !.error = IF dbError /\ mode = "indexeddb" /\ page.images # {}
                             THEN "Failed to save image to local database."
                             ELSE page.error,
                   !.latestImageBatch =
                       [null |-> FALSE,
                        images |-> ProcessedImages(page.images, mode, dbError)]]]
    /\ UNCHANGED <<profiles, transactions, req, resp, webhookSecret, concurrent, faulty,
                   log, generations, external, env>>

----------------------------------------------------------------------------
(* Specifications *)

\* the steps of the handlers of purchase.completed / subscription.created
PurchaseSteps ==
    \/ \E p \in Procs : handlePurchaseCompleted_FindUser(p)
    \/ \E p \in Procs : handlePurchaseCompleted_AddCredits(p)
    \/ \E p \in Procs : handlePurchaseCompleted_UpdateStatus(p)
    \/ \E p \in Procs : handlePurchaseCompleted_Insert(p)

RefundSteps ==
    \/ \E p \in Procs : handleRefund_FindTransaction(p)
    \/ \E p \in Procs : handleRefund_ReadProfile(p)
    \/ \E p \in Procs : handleRefund_UpdateProfile(p)
    \/ \E p \in Procs : handleRefund_Insert(p)

\* Every operation with every input, one request at a time.  The second user
\* only signs up: it is the account no event is about.
Next ==
    \/ \E u \in Users : handle_new_user(u)
    \/ \E p \in Procs, n \in Amounts : use_credits_Call(p, "u1", n)
    \/ \E p \in Procs : use_credits_Select(p)
    \/ \E p \in Procs : use_credits_Update(p)
    \/ \E p \in Procs : Request(p)
    \/ PurchaseSteps
    \/ \E p \in Procs : handleSubscriptionRenewed_FindUser(p)
    \/ \E p \in Procs : handleSubscriptionRenewed_AddCredits(p)
    \/ \E p \in Procs : handleSubscriptionRenewed_Insert(p)
    \/ \E p \in Procs : handleSubscriptionCancelled(p)
    \/ RefundSteps

\* one request at a time, every call to the store succeeds
Spec == Init /\ [][Next]_vars

\* one request at a time, calls to the store may fail
InitFaulty == Start(FALSE, TRUE)

SpecFaulty == InitFaulty /\ [][Next]_vars

\* Overlapping requests about one account: single credits, and correctly
\* signed purchases and refunds of the two orders.
ConcBodies ==
    {b \in Payloads :
        /\ b.event_type \in {"purchase.completed", "refund.processed"}
        /\ b.customer_email = EmailOf("u1")
        /\ b.subscription_type = NULL}

NextConc ==
    \/ handle_new_user("u1")
    \/ \E p \in Procs : use_credits_Call(p, "u1", 1)
    \/ \E p \in Procs : use_credits_Select(p)
    \/ \E p \in Procs : use_credits_Update(p)
    \/ \E p \in Procs : Deliver(p, ConcBodies)
    \/ PurchaseSteps
    \/ RefundSteps

InitConc == Start(TRUE, FALSE) /\ webhookSecret = ProcessorSecret

\* One request at a time, every call to the store succeeds, and every event is
\* one the payment processor signed with the configured secret.
NextSigned ==
    \/ \E u \in Users : handle_new_user(u)
    \/ \E p \in Procs, n \in Amounts : use_credits_Call(p, "u1", n)
    \/ \E p \in Procs : use_credits_Select(p)
    \/ \E p \in Procs : use_credits_Update(p)
    \/ \E p \in Procs : Deliver(p, Payloads)
    \/ PurchaseSteps
    \/ \E p \in Procs : handleSubscriptionRenewed_FindUser(p)
    \/ \E p \in Procs : handleSubscriptionRenewed_AddCredits(p)
    \/ \E p \in Procs : handleSubscriptionRenewed_Insert(p)
    \/ \E p \in Procs : handleSubscriptionCancelled(p)
    \/ RefundSteps

InitSigned == Start(FALSE, FALSE) /\ webhookSecret = ProcessorSecret

SpecSigned == InitSigned /\ [][NextSigned]_vars

\* The same, with the credit RPC called directly with any amount it accepts.
NextRpc ==
    \/ handle_new_user("u1")
    \/ \E p \in Procs, n \in RpcAmounts : use_credits_Call(p, "u1", n)
    \/ \E p \in Procs : use_credits_Select(p)
    \/ \E p \in Procs : use_credits_Update(p)
    \/ \E p \in Procs : Deliver(p, Payloads)
    \/ PurchaseSteps
    \/ \E p \in Procs : handleSubscriptionRenewed_FindUser(p)
    \/ \E p \in Procs : handleSubscriptionRenewed_AddCredits(p)
    \/ \E p \in Procs : handleSubscriptionRenewed_Insert(p)
    \/ \E p \in Procs : handleSubscriptionCancelled(p)
    \/ RefundSteps

SpecRpc == InitSigned /\ [][NextRpc]_vars

SpecConc == InitConc /\ [][NextConc]_vars

\* Two tabs of the first user's page, in every environment, with the store
\* failing or not: the page, the /api/images route and the credit RPC.
NextClient ==
    \/ handle_new_user("u1")
    \/ \E c \in Procs : checkAuth(c, "u1")
    \/ \E c \in Procs : handleApiCall_Start(c)
    \/ \E c \in Procs : handleApiCall_GetSession(c)
    \/ \E c \in Procs : images_POST(c)
    \/ \E c \in Procs : images_POST_Generate(c)
    \/ \E c \in Procs : handleApiCall_UseCredits(c)
    \/ \E p \in Procs : use_credits_Select(p)
    \/ \E p \in Procs : use_credits_Update(p)
    \/ \E c \in Procs : handleApiCall_CreditResult(c)
    \/ \E c \in Procs : handleApiCall_RefreshProfile(c)
    \/ \E c \in Procs : handleApiCall_RecordGeneration(c)
    \/ \E c \in Procs : handleApiCall_Display(c)

InitClient ==
    /\ profiles = [u \in Users |-> NoProfile]
    /\ transactions = {}
    /\ req = [p \in Procs |-> Idle]
    /\ resp = [p \in Procs |-> "none"]
    /\ webhookSecret = ProcessorSecret
    /\ concurrent = TRUE
    /\ faulty \in BOOLEAN
    /\ log = [p \in Procs |-> NoLine]
    /\ client = [c \in Procs |-> NoPage]
    /\ generations = 0
    /\ external = 0
    /\ env \in {e \in Envs : e.APP_PASSWORD = Unset}   \* the page sends no password

SpecClient == InitClient /\ [][NextClient]_vars

\* Requests sent to /api/images with any token and any password hash, one at a
\* time, by users who also spend their credits; the password set or not.
NextImages ==
    \/ \E u \in Users : handle_new_user(u)
    \/ \E p \in Procs, n \in Amounts : use_credits_Call(p, "u1", n)
    \/ \E p \in Procs : use_credits_Select(p)
    \/ \E p \in Procs : use_credits_Update(p)
    \/ \E p \in Procs, userToken \in Tokens, passwordHash \in Hashes, complete \in BOOLEAN :
          images_Request(p, userToken, passwordHash, complete)
    \/ \E p \in Procs : images_Generate(p)

InitImages ==
    /\ profiles = [u \in Users |-> NoProfile]
    /\ transactions = {}
    /\ req = [p \in Procs |-> Idle]
    /\ resp = [p \in Procs |-> "none"]
    /\ webhookSecret = ProcessorSecret
    /\ concurrent = FALSE
    /\ faulty \in BOOLEAN
    /\ log = [p \in Procs |-> NoLine]
    /\ client = [c \in Procs |-> NoPage]
    /\ generations = 0
    /\ external = 0
    /\ env \in {e \in Envs : /\ e.NEXT_PUBLIC_IMAGE_STORAGE_MODE = Unset
                              /\ e.VERCEL = Unset
                              /\ e.NEXT_PUBLIC_VERCEL_ENV = Unset}

SpecImages == InitImages /\ [][NextImages]_vars

----------------------------------------------------------------------------
(* Claims *)

Present == {u \in Users : profiles[u].present}

\* C1: for every account, in every reachable state, used_credits <= total_credits
\* and both are >= 0.
C1_UsedWithinTotal ==
    \A u \in Present :
        /\ profiles[u].used_credits >= 0
        /\ profiles[u].total_credits >= 0
        /\ profiles[u].used_credits <= profiles[u].total_credits

----------------------------------------------------------------------------
InPurchase(p) == req[p].pc \in {"pc_find", "pc_add", "pc_update", "pc_insert"}
InRefund(p) == req[p].pc \in {"rf_find", "rf_read", "rf_update", "rf_insert"}
InCredits(p) == req[p].pc \in {"uc_select", "uc_update"}
InWebhook(p) == Busy(p) /\ ~InCredits(p)

\* slot p takes a step
Steps(p) == req'[p] # req[p]

TotalsUnchanged ==
    \A u \in Users : profiles'[u].total_credits = profiles[u].total_credits

\* the payload was processed before: its purchase Transaction is in the log and
\* its account carries the subscription it set
Recorded(d) ==
    \E t \in transactions : /\ t.groovesell_order_id = d.order_id
                            /\ t.transaction_type = "purchase"
                            /\ EmailOf(t.user_id) = d.customer_email
                            /\ profiles[t.user_id].subscription_status = "active"
                            /\ profiles[t.user_id].subscription_type = SubscriptionTypeOf(d)

\* C2: use_credits is atomic: of concurrent use_credits(u,1) calls against N
\* available credits exactly N return true, for every interleaving.  As a step
\* property: a call debits and returns true only while a credit is available
\* (no purchase recorded, so that no refund has taken credits away meanwhile).
C2_UseCreditsAtomic ==
    [][\A p \in Procs :
          (use_credits_Update(p) /\ req[p].credits_to_use = 1 /\ transactions = {})
              => HasEnough(SelectAvailable(profiles, req[p].userId), 1)]_vars

\* C3: delivering the same signed purchase.completed / subscription.created
\* payload again, after its Transaction was recorded, changes no total_credits,
\* adds no Transaction and is answered with success.
C3_ReplayedPurchaseAppliedOnce ==
    [][\A p \in Procs :
          (InPurchase(p) /\ Steps(p) /\ Recorded(req[p].data))
              => /\ TotalsUnchanged
                 /\ transactions' = transactions
                 /\ ~Busy(p)' => resp'[p] = "200"]_vars

\* C4: of two overlapping deliveries of the same purchase event only one adds
\* the credits, and at most one Transaction of the order_id exists.
C4_ConcurrentDuplicateAppliedOnce ==
    [][/\ \A t1 \in transactions' : \A t2 \in transactions' :
            t1.groovesell_order_id = t2.groovesell_order_id => t1 = t2
       /\ \A p \in Procs : \A q \in Procs \ {p} :
            (/\ req[p].pc = "pc_add" /\ Steps(p)
             /\ req[q].pc \in {"pc_update", "pc_insert"}
             /\ req[q].data = req[p].data
             /\ ~Recorded(req[p].data))
                => TotalsUnchanged]_vars

\* C5: a refund.processed event whose order_id matches a recorded Transaction
\* with credits_added = C reduces the owner's total_credits by exactly
\* min(C, total_credits), never below 0, and changes no other total.
C5_RefundRemovesMin ==
    [][\A p \in Procs :
          (InRefund(p) /\ Steps(p)) =>
              IF req[p].pc \in {"rf_read", "rf_update"}
              THEN LET t == CHOOSE t \in TransactionByOrder(transactions,
                                                            req[p].data.order_id) : TRUE
                       C == t.credits_added
                       total == profiles[t.user_id].total_credits
                       removed == IF C <= total THEN C ELSE total
                   IN  IF req[p].pc = "rf_read"
                       THEN req'[p].pc = "rf_update" /\ TotalsUnchanged
                       ELSE /\ profiles'[t.user_id].total_credits = total - removed
                            /\ profiles'[t.user_id].total_credits >= 0
                            /\ \A u \in Users \ {t.user_id} :
                                 profiles'[u].total_credits = profiles[u].total_credits
              ELSE TotalsUnchanged]_vars

\* a refund has just taken all the credits left, fewer than the purchase gave
C5_Witness ==
    \E p \in Procs :
        /\ req[p].pc = "rf_insert"
        /\ req[p].hasProfile
        /\ req[p].total_credits > 0
        /\ req[p].total_credits < req[p].credits_added
        /\ profiles[req[p].userId].total_credits = 0

\* C6: delivering the same signed refund.processed payload again, after its
\* refund Transaction was recorded, removes no further credits and records no
\* second refund Transaction.
C6_ReplayedRefundAppliedOnce ==
    [][\A p \in Procs :
          (/\ InRefund(p) /\ Steps(p)
           /\ TransactionByOrder(transactions, RefundKey(req[p].data.order_id)) # {})
              => TotalsUnchanged /\ transactions' = transactions]_vars

\* the request of slot p carries the signature of its body under the secret
Signed(p) ==
    /\ webhookSecret # NoSecret
    /\ req[p].signature # NoSignature
    /\ req[p].signature = ExpectedSignature(req[p].data, webhookSecret)

\* C7: a webhook request whose signature is missing or does not match the HMAC
\* of its body mutates no account and no transaction: only correctly signed
\* requests reach a handler, and every change of the tables is a step of a
\* signup, of a credit call or of a correctly signed request.
C7_UnsignedNeverMutates ==
    [][/\ \A p \in Procs : InWebhook(p)' => Signed(p)'
       /\ (profiles' # profiles \/ transactions' # transactions)
            => \/ \E u \in Users : handle_new_user(u)
               \/ \E p \in Procs : Busy(p) /\ Steps(p) /\ (InWebhook(p) => Signed(p))]_vars

\* a request was refused for its signature while there was a ledger to change
C7_Witness ==
    /\ \E p \in Procs : resp[p] = "401"
    /\ \E u \in Present : profiles[u].total_credits > FreeCredits
    /\ transactions # {}

\* C8: every webhook request with a missing or mismatching signature, of any
\* length, is answered with an authentication error (a 4xx status), not with
\* success and not with an internal server error.
C8_BadSignatureIsAuthError ==
    [][\A p \in Procs, body \in Bodies : \A signature \in Signatures(body) :
          (/\ webhookSecret # NoSecret
           /\ signature # ExpectedSignature(body, webhookSecret)
           /\ POST(p, body, signature))
              => resp'[p] \in {"400", "401"}]_vars

\* C9: without a configured webhook secret every webhook event is rejected with
\* a non-success status and none reaches a handler: no transaction is ever
\* recorded and no account's total_credits or subscription changes.
C9_FailClosed ==
    webhookSecret = NoSecret =>
        /\ \A p \in Procs : ~InWebhook(p) /\ resp[p] # "200"
        /\ transactions = {}
        /\ \A u \in Present :
              /\ profiles[u].total_credits = FreeCredits
              /\ profiles[u].subscription_status = "inactive"
              /\ profiles[u].subscription_type = NULL

\* without a secret, an event was answered 500 while an account existed
C9_Witness ==
    /\ webhookSecret = NoSecret
    /\ \E p \in Procs : resp[p] = "500"
    /\ Present # {}

\* C10: a new account starts with 3 total credits, 0 used and status inactive;
\* while its total is 3, use_credits(u,1) returns true and debits one credit as
\* long as fewer than 3 are used, and with 3 used returns false and changes
\* nothing.
C10_ThreeFreeCredits ==
    [][/\ \A u \in Users : handle_new_user(u) =>
            profiles'[u] = [present |-> TRUE, total_credits |-> 3, used_credits |-> 0,
                            subscription_status |-> "inactive",
                            subscription_type |-> NULL]
       /\ \A p \in Procs :
            LET u == req[p].userId
            IN  (/\ InCredits(p) /\ Steps(p)
                 /\ req[p].credits_to_use = 1
                 /\ profiles[u].present /\ profiles[u].total_credits = 3)
                    => IF profiles[u].used_credits < 3
                       THEN IF req[p].pc = "uc_select"
                            THEN req'[p].pc = "uc_update" /\ profiles' = profiles
                            ELSE /\ resp'[p] = "TRUE"
                                 /\ profiles'[u] = [profiles[u] EXCEPT
                                                       !.used_credits = @ + 1]
                       ELSE /\ ~Busy(p)' /\ resp'[p] = "FALSE"
                            /\ profiles' = profiles]_vars

\* the fourth call on the free credits was refused
C10_Witness ==
    \E p \in Procs :
        /\ resp[p] = "FALSE" /\ ~Busy(p)
        /\ profiles["u1"].present
        /\ profiles["u1"].total_credits = 3
        /\ profiles["u1"].used_credits = 3
        /\ profiles["u1"].subscription_status = "inactive"
        /\ transactions = {}

----------------------------------------------------------------------------
\* the tables are left as they are
TablesUnchanged == profiles' = profiles /\ transactions' = transactions

\* slot p ends its request with the status
Answers(p, status) == ~Busy(p)' /\ resp'[p] = status

\* C11: use_credits(u, n) called with total_credits - used_credits < n (or for
\* no account) returns false and changes nothing; when it returns true it makes
\* one change, used_credits + n, and leaves total_credits, the subscription
\* columns, every other account and the transactions as they are.
C11_UseCreditsContract ==
    [][\A p \in Procs :
          (InCredits(p) /\ Steps(p)) =>
              LET u == req[p].userId
                  n == req[p].credits_to_use
                  short == \/ ~profiles[u].present
                           \/ profiles[u].total_credits - profiles[u].used_credits < n
              IN  IF req[p].pc = "uc_select"
                  THEN /\ TablesUnchanged
                       /\ IF short THEN Answers(p, "FALSE")
                          ELSE req'[p].pc = "uc_update"
                  ELSE /\ Answers(p, "TRUE")
                       /\ transactions' = transactions
                       /\ profiles' = [profiles EXCEPT
                             ![u] = [present |-> TRUE,
                                     total_credits |-> profiles[u].total_credits,
                                     used_credits |-> profiles[u].used_credits + n,
                                     subscription_status |-> profiles[u].subscription_status,
                                     subscription_type |-> profiles[u].subscription_type]]
       ]_vars

\* a call for 2 credits was refused with 1 credit left, after a call was granted
C11_Witness ==
    \E p \in Procs :
        /\ resp[p] = "FALSE" /\ ~Busy(p)
        /\ profiles["u1"].present
        /\ profiles["u1"].used_credits > 0
        /\ profiles["u1"].total_credits - profiles["u1"].used_credits = 1

\* the steps of the purchase handler, with the subscription type `type` expected
\* for the payload: the grant of N, the activation, the one Transaction
PurchaseApplied(p, type) ==
    LET u == req[p].userId
        d == req[p].data
        row == [user_id |-> u, groovesell_order_id |-> d.order_id,
                transaction_type |-> "purchase", credits_added |-> 5]
    IN  CASE req[p].pc = "pc_find" ->
                 (\E v \in Present : EmailOf(v) = d.customer_email)
                     => /\ req'[p].pc = "pc_add"
                        /\ EmailOf(req'[p].userId) = d.customer_email
                        /\ TablesUnchanged
          [] req[p].pc = "pc_add" ->
                 /\ profiles' = [profiles EXCEPT ![u].total_credits = @ + 5]
                 /\ transactions' = transactions
                 /\ req'[p].pc = "pc_update"
          [] req[p].pc = "pc_update" ->
                 /\ profiles' = [profiles EXCEPT ![u].subscription_status = "active",
                                                 ![u].subscription_type = type]
                 /\ transactions' = transactions
                 /\ req'[p].pc = "pc_insert"
          [] req[p].pc = "pc_insert" ->
                 /\ profiles' = profiles
                 /\ row \in transactions'
                 /\ transactions' \subseteq transactions \cup {row}
                 /\ \A t \in transactions' : t.groovesell_order_id = d.order_id => t = row
                 /\ Answers(p, "200")
          [] OTHER -> TRUE

\* C12 as stated: a signed purchase.completed or subscription.created event for
\* a resolvable account adds N to total_credits, sets subscription_status
\* active and subscription_type to the value the payload carries (none when it
\* carries none), records one Transaction(purchase, +N, order_id) and leaves
\* used_credits unchanged.
C12_PurchaseSetsPayloadType ==
    [][\A p \in Procs :
          (InPurchase(p) /\ Steps(p)) => PurchaseApplied(p, req[p].data.subscription_type)
       ]_vars

\* C12, amended: the same, with subscription_type set to the payload's value
\* or, when the payload carries none, to 'monthly'.
C12_PurchaseApplied ==
    [][\A p \in Procs :
          (InPurchase(p) /\ Steps(p)) =>
              PurchaseApplied(p, IF req[p].data.subscription_type = NULL THEN "monthly"
                                 ELSE req[p].data.subscription_type)
       ]_vars

\* a purchase that named a yearly subscription was applied to the free account
C12_Witness ==
    \E p \in Procs :
        /\ log[p] = "Successfully processed purchase for" /\ resp[p] = "200"
        /\ profiles["u1"].total_credits = 8
        /\ profiles["u1"].subscription_status = "active"
        /\ profiles["u1"].subscription_type = "yearly"
        /\ Cardinality(transactions) = 1

\* C13: a refund.processed event whose order_id matches a recorded Transaction
\* with credits_added = C records a Transaction keyed '<orderId>-refund' of type
\* refund with credits_added = -C for the owner and sets the owner's
\* subscription_status to cancelled.
C13_RefundRecorded ==
    [][\A p \in Procs :
          (InRefund(p) /\ Steps(p)) =>
              LET d == req[p].data
                  matching == {t \in transactions : t.groovesell_order_id = d.order_id}
              IN  \A t \in matching :
                    CASE req[p].pc = "rf_find" ->
                             req'[p].pc = "rf_read" /\ TablesUnchanged
                      [] req[p].pc = "rf_read" ->
                             req'[p].pc = "rf_update" /\ TablesUnchanged
                      [] req[p].pc = "rf_update" ->
                             /\ profiles'[t.user_id].subscription_status = "cancelled"
                             /\ transactions' = transactions
                             /\ req'[p].pc = "rf_insert"
                      [] req[p].pc = "rf_insert" ->
                             /\ [user_id |-> t.user_id,
                                 groovesell_order_id |-> d.order_id \o "-refund",
                                 transaction_type |-> "refund",
                                 credits_added |-> 0 - t.credits_added] \in transactions'
                             /\ profiles' = profiles
                             /\ profiles[t.user_id].subscription_status = "cancelled"
                             /\ Answers(p, "200")
       ]_vars

\* the refund of a +5 purchase was recorded as -5 and the account is cancelled
C13_Witness ==
    \E p \in Procs :
        /\ log[p] = "Refund processed for order" /\ resp[p] = "200"
        /\ \E t \in transactions : /\ t.transaction_type = "refund"
                                   /\ t.credits_added = -5
                                   /\ t.groovesell_order_id = "O1-refund"
                                   /\ profiles[t.user_id].subscription_status = "cancelled"
                                   /\ profiles[t.user_id].total_credits = 3

\* C14: a refund.processed event whose order_id matches no recorded Transaction
\* changes no account and no transaction and is answered with success.
C14_UnmatchedRefundIsNoop ==
    [][\A p \in Procs :
          (/\ req[p].pc = "rf_find" /\ Steps(p)
           /\ \A t \in transactions : t.groovesell_order_id # req[p].data.order_id)
              => TablesUnchanged /\ Answers(p, "200")]_vars

\* a refund of an order never recorded was acknowledged, with another order
\* recorded and its credits granted
C14_Witness ==
    \E p \in Procs :
        /\ log[p] = "Original transaction not found for refund:" /\ resp[p] = "200"
        /\ Cardinality(transactions) = 1
        /\ \E u \in Present : profiles[u].total_credits = 8

\* C15: a purchase.completed, subscription.created or subscription.renewed
\* event whose customer_email matches no account changes no account, records
\* no Transaction and is answered with success.
C15_UnknownCustomerIsNoop ==
    [][\A p \in Procs :
          (/\ req[p].pc \in {"pc_find", "rn_find"} /\ Steps(p)
           /\ \A u \in Present : EmailOf(u) # req[p].data.customer_email)
              => TablesUnchanged /\ Answers(p, "200")]_vars

\* an event for an unknown customer was acknowledged while both accounts existed
C15_Witness ==
    \E p \in Procs :
        /\ log[p] \in {"User not found for email:", "User not found for renewal:"}
        /\ resp[p] = "200"
        /\ Present = Users

\* C16: when a store operation fails while a signed event is handled, the
\* endpoint answers with a failure status, not with success.
C16_StoreFailureIsNotAcknowledged ==
    [][\A p \in Procs :
          (/\ InWebhook(p) /\ Steps(p)
           /\ log'[p] \in {"Error adding credits:", "Error updating subscription status:",
                           "Error updating cancelled subscription:"})
              => resp'[p] # "200"]_vars

\* C17: the credit debit of a generation request is made before the call to the
\* image API, and use_credits is invoked at most once for the request.
C17_DebitBeforeGeneration ==
    [][\A c \in Procs :
          /\ client'[c].credit_calls <= 1
          /\ (client[c].pc = "generate" /\ client'[c].pc # "generate")
                => client[c].credit_calls = 1]_vars

\* C18: a subscription.renewed event for a resolvable account adds N to
\* total_credits and records one Transaction(purchase, +N), and leaves
\* subscription_status, subscription_type and used_credits unchanged.
C18_RenewalAddsCreditsOnly ==
    [][\A p \in Procs :
          (req[p].pc \in {"rn_find", "rn_add", "rn_insert"} /\ Steps(p)) =>
              LET u == req[p].userId
                  d == req[p].data
                  row == [user_id |-> u, groovesell_order_id |-> d.order_id,
                          transaction_type |-> "purchase", credits_added |-> 5]
              IN  CASE req[p].pc = "rn_find" ->
                           (\E v \in Present : EmailOf(v) = d.customer_email)
                               => /\ req'[p].pc = "rn_add"
                                  /\ EmailOf(req'[p].userId) = d.customer_email
                                  /\ TablesUnchanged
                    [] req[p].pc = "rn_add" ->
                           /\ profiles' = [profiles EXCEPT
                                 ![u] = [present |-> TRUE,
                                         total_credits |-> profiles[u].total_credits + 5,
                                         used_credits |-> profiles[u].used_credits,
                                         subscription_status |->
                                             profiles[u].subscription_status,
                                         subscription_type |->
                                             profiles[u].subscription_type]]
                           /\ transactions' = transactions
                           /\ req'[p].pc = "rn_insert"
                    [] req[p].pc = "rn_insert" ->
                           /\ profiles' = profiles
                           /\ row \in transactions'
                           /\ transactions' \subseteq transactions \cup {row}
                           /\ Answers(p, "200")
       ]_vars

\* a renewal was applied to an account that never subscribed
C18_Witness ==
    \E p \in Procs :
        /\ log[p] = "Subscription renewed for" /\ resp[p] = "200"
        /\ profiles["u1"].total_credits = 8
        /\ profiles["u1"].used_credits = 2
        /\ profiles["u1"].subscription_status = "inactive"
        /\ profiles["u1"].subscription_type = NULL
        /\ Cardinality(transactions) = 1

\* C19: a subscription.cancelled event sets subscription_status = cancelled on
\* the account matching customer_email and leaves every other column, every
\* other account and the transactions unchanged.
C19_CancellationSetsStatusOnly ==
    [][\A p \in Procs :
          (req[p].pc = "cn_update" /\ Steps(p)) =>
              /\ \A u \in Users :
                    profiles'[u] =
                        IF profiles[u].present /\ EmailOf(u) = req[p].data.customer_email
                        THEN [present |-> TRUE,
                              total_credits |-> profiles[u].total_credits,
                              used_credits |-> profiles[u].used_credits,
                              subscription_status |-> "cancelled",
                              subscription_type |-> profiles[u].subscription_type]
                        ELSE profiles[u]
              /\ transactions' = transactions
              /\ Answers(p, "200")]_vars

\* a subscription with credits used and a purchase recorded was cancelled, next
\* to an account the event was not about
C19_Witness ==
    \E p \in Procs :
        /\ log[p] = "Subscription cancelled for" /\ resp[p] = "200"
        /\ profiles["u1"].subscription_status = "cancelled"
        /\ profiles["u1"].subscription_type = "monthly"
        /\ profiles["u1"].total_credits = 8
        /\ profiles["u1"].used_credits = 1
        /\ profiles["u2"].present
        /\ profiles["u2"].subscription_status = "inactive"
        /\ transactions # {}

\* the signed payloads whose event_type no handler is written for
Unrecognized ==
    {b \in Payloads : b.event_type \notin {"purchase.completed", "subscription.created",
                                           "subscription.renewed",
                                           "subscription.cancelled", "refund.processed"}}

\* C20: a validly signed event with an unrecognized event_type changes no
\* account and no transaction and is answered with success.
C20_UnrecognizedIsNoop ==
    [][\A p \in Procs, body \in Unrecognized :
          (/\ webhookSecret # NoSecret
           /\ POST(p, body, ExpectedSignature(body, webhookSecret)))
              => TablesUnchanged /\ Answers(p, "200")]_vars

\* an unrecognized event was acknowledged while there was a ledger to change
C20_Witness ==
    \E p \in Procs :
        /\ log[p] = "Unhandled event type:" /\ resp[p] = "200"
        /\ transactions # {}
        /\ \E u \in Present : profiles[u].total_credits > FreeCredits

----------------------------------------------------------------------------
\* C21: used_credits of an account never goes down: no call of use_credits(u, n),
\* for any integer n the RPC accepts, and no webhook event lowers it.
C21_UsedNeverDecreases ==
    [][\A u \in Users :
          (profiles[u].present /\ profiles'[u].present)
              => profiles'[u].used_credits >= profiles[u].used_credits]_vars

\* C22: a refund that runs while a purchase of the same account is being
\* handled loses no update: the total the refund writes is the refund applied
\* to the total of that moment, so that the two adjustments compose in a
\* serial order.
C22_RefundAndGrantSerialize ==
    [][\A p \in Procs :
          (/\ req[p].pc = "rf_update" /\ Steps(p)
           /\ \E q \in Procs \ {p} : InPurchase(q) /\ req[q].userId = req[p].userId)
              => LET total == profiles[req[p].userId].total_credits
                     C == req[p].credits_added
                 IN  profiles'[req[p].userId].total_credits
                        = Max(0, total - Min(C, total))]_vars

\* C23: the Transaction Log is append-only: a recorded row is never changed or
\* removed by a webhook event or a credit operation; the set of rows only grows.
C23_TransactionsAppendOnly ==
    [][transactions \subseteq transactions']_vars

\* purchases and a refund are on the log together
C23_Witness ==
    /\ Cardinality(transactions) >= 3
    /\ \E t \in transactions : t.transaction_type = "refund"
    /\ \E t \in transactions : t.transaction_type = "purchase"

RECURSIVE SumCreditsAdded(_)
\* the sum of credits_added over a set of Transaction rows
SumCreditsAdded(rows) ==
    IF rows = {} THEN 0
    ELSE LET t == CHOOSE t \in rows : TRUE
         IN  t.credits_added + SumCreditsAdded(rows \ {t})

\* no request is being handled
Quiescent == \A p \in Procs : ~Busy(p)

\* C27: after any sequence of webhook events every increase of total_credits
\* has its recorded Transaction: total_credits is at most 3 plus the sum of the
\* positive credits_added of the account's transactions.
C27_GrantsMatchTransactions ==
    Quiescent =>
        \A u \in Present :
            profiles[u].total_credits
                <= 3 + SumCreditsAdded({t \in transactions :
                                           t.user_id = u /\ t.credits_added > 0})

----------------------------------------------------------------------------
\* C24: a generations row is inserted only by a request whose use_credits call
\* returned true and whose call to /api/images returned images; a request of
\* which either failed inserts none, and the rows already there stay.
C24_RecordAfterDebitAndGeneration ==
    [][/\ generations' >= generations
       /\ generations' # generations =>
            /\ generations' = generations + 1
            /\ \E c \in Procs : /\ client[c].pc = "record" /\ client'[c].pc = "display"
                                /\ resp[c] = "TRUE"
                                /\ client[c].status = "200"
                                /\ client[c].images # {}
       /\ \A c \in Procs :
            (client[c].pc # "idle" /\ client'[c].pc = "idle"
                /\ (resp[c] # "TRUE" \/ client[c].images = {}))
                   => generations' = generations]_vars

\* one request was recorded, and another ended on a refused or failed debit
\* after its images had come back, without a row
C24_Witness ==
    /\ generations = 1
    /\ external >= 2
    /\ \E c \in Procs : /\ client[c].pc = "idle"
                        /\ client[c].generated /\ ~client[c].creditUsed
                        /\ client[c].error = "Error updating credits. Please try again."

\* C26: the effective storage mode is the explicit mode when that is 'fs' or
\* 'indexeddb', and the route and the page compute the same mode in every
\* environment.
C26_SameStorageMode ==
    /\ env.NEXT_PUBLIC_IMAGE_STORAGE_MODE \in {"fs", "indexeddb"}
          => effectiveStorageMode(env) = env.NEXT_PUBLIC_IMAGE_STORAGE_MODE
    /\ effectiveStorageMode(env) = effectiveStorageModeClient(env)

\* every page is at rest: no invocation of handleApiCall is running
PagesIdle == \A c \in Procs : client[c].pc = "idle"

\* C28: no generation without a debit: every request for which the image API
\* delivered its image has a use_credits call that returned true, so that the
\* delivered images never outnumber the credits debited.
C28_NoGenerationWithoutDebit ==
    PagesIdle => \A c \in Procs : client[c].generated => client[c].creditUsed

\* C29: an invocation of handleApiCall that set isLoading has, when it ends,
\* set isLoading back to false and cleared the photo preview, on every path.
C29_LoadingAlwaysCleared ==
    \A c \in Procs :
        client[c].pc = "idle" => ~client[c].isLoading /\ ~client[c].photoPreview

\* C30: a request that debited a credit ends with a non-empty displayed image
\* batch, whatever the storage modes of the route and of the page (saving to
\* IndexedDB having worked).
C30_DebitedRequestShowsImage ==
    \A c \in Procs :
        (client[c].pc = "idle" /\ client[c].creditUsed /\ client[c].error = "null")
            => /\ ~client[c].latestImageBatch.null
               /\ client[c].latestImageBatch.images # {}

----------------------------------------------------------------------------
\* the gate as the request with this token and this hash meets it now
PassesGate(userToken, passwordHash) ==
    \/ /\ userToken # "none"
       /\ \E u \in Users : /\ profiles[u].present
                           /\ userToken = "token-" \o u
                           /\ profiles[u].total_credits - profiles[u].used_credits > 0
    \/ /\ userToken = "none"
       /\ env.APP_PASSWORD # Unset
       /\ passwordHash = "sha256:" \o env.APP_PASSWORD

\* the route makes the generation call only for a request that passed the gate,
\* and answers every other request 401, 403 or 404 without a generation call
GateAsEnumerated ==
    /\ \A p \in Procs, userToken \in Tokens, passwordHash \in Hashes, complete \in BOOLEAN :
          images_Request(p, userToken, passwordHash, complete) =>
              /\ external' = external
              /\ req'[p].pc = "im_generate" => PassesGate(userToken, passwordHash)
              /\ ~PassesGate(userToken, passwordHash)
                    => Answers(p, "401") \/ Answers(p, "403") \/ Answers(p, "404")
    /\ external' # external => \E p \in Procs : req[p].pc = "im_generate" /\ Steps(p)

\* C25: /api/images reaches the generation call only for a request that passed
\* the gate (a token of a user with total_credits - used_credits > 0, or no
\* token and the hash of the configured APP_PASSWORD), every other request is
\* answered 401, 403 or 404 without a generation call, and every generation is
\* gated on the available balance of an account.
C25_GenerationGatedOnBalance ==
    [][/\ GateAsEnumerated
       /\ \A p \in Procs :
            (req'[p].pc = "im_generate" /\ req[p].pc # "im_generate")
                => \E u \in Present :
                      /\ req'[p].userId = u
                      /\ profiles[u].total_credits - profiles[u].used_credits > 0]_vars

====
